---- MODULE Spec2Model ----
(***************************************************************************)
(* uvccapture2: one capture session of src/src/uvccapture2.cpp.            *)
(*                                                                         *)
(* The state is the option set given on the command line, the position of  *)
(* main()/V4L2Device in its code, the members of V4L2Device (fd,           *)
(* frames_taken, buffers), the locals of capture(), and the part of the    *)
(* kernel the program talks to: which side owns each buffer slot, the list *)
(* of filled buffers, and the edge-triggered readiness of the descriptor.  *)
(* trace is the history of the calls the process has issued.               *)
(***************************************************************************)
EXTENDS Integers, Sequences, FiniteSets, TLC

\* ---- bounds of the model -------------------------------------------------
\* kBuffersCount is 16 * 2 in the source (line 38); the pool is scaled down.
kBuffersCount == 2
\* largest --count and --skip values given on the command line
MaxCount == 2
MaxSkip == 1
\* number of buffers the driver fills in one session
MaxFrames == 3
\* number of zero-result wake-ups of epoll_wait in a row
MaxZeroWakes == 1
\* size of one driver buffer in bytes (scaled down); a frame occupies
\* between 1 and BufferLength bytes of it
BufferLength == 2
\* latest value of the clock, counted in units of the finest field of the
\* time-format template
MaxTime == 1
\* largest number of options given on one command line
MaxOptions == 3
\* number of scanlines of one image the scanline loops are followed for
MaxScanlines == 3

\* ---- program constants ---------------------------------------------------
kDefaultJPEGQuality == 75
EXIT_SUCCESS == 0
EXIT_FAILURE == 1
\* microseconds in a second: the 1e6 of line 159
UsecPerSec == 1000000

Slots == 0 .. (kBuffersCount - 1)

\* ---- the command line ----------------------------------------------------
\* A resolution string is a sequence of characters.
Digits == {"0", "1", "2", "3", "4", "5", "6", "7", "8", "9"}
ResolutionInputs ==
    { <<"6", "x", "4">>, <<"6", "4">>, <<"x", "4">>, <<"a", "x", "4">> }
QualityInputs == {-1, 100, 101}
\* seconds; LongPause is two hours between frames
LongPause == 7200
PauseInputs == {-1, 1, LongPause}
SkipInputs == 1 .. MaxSkip
CountInputs == (0 .. MaxCount) \ {1}

\* the default of --resolution (640x480 at line 614, scaled down)
DefaultResolution == <<"6", "x", "4">>

Given(flag) == IF flag THEN 1 ELSE 0

\* number of options on the command line that makes o
GivenOptions(o) ==
    Given(o.help) + Given(o.has_result)
    + Given(o.resolution # DefaultResolution)
    + Given(o.has_quality) + Given(o.has_skip) + Given(o.has_count)
    + Given(o.has_pause) + Given(o.loop) + Given(o.strftime)
    + Given(o.save_jpeg_asis) + Given(o.ignore_jpeg_errors)
    + Given(o.quiet)

\* has_<name> is options->count("<name>"); an option that was not given
\* carries value 0 and is never read. --skip 0, --count 1 and --pause 0
\* behave as the absent option does and are left out.
OptionSets ==
    { o \in [ help : BOOLEAN,
              has_result : BOOLEAN,
              resolution : ResolutionInputs,
              has_quality : BOOLEAN, quality : QualityInputs \cup {0},
              has_skip : BOOLEAN, skip : SkipInputs \cup {0},
              has_count : BOOLEAN, count : CountInputs \cup {0},
              has_pause : BOOLEAN, pause : PauseInputs \cup {0},
              loop : BOOLEAN,
              strftime : BOOLEAN,
              save_jpeg_asis : BOOLEAN,
              ignore_jpeg_errors : BOOLEAN,
              quiet : BOOLEAN ] :
        /\ (IF o.has_quality THEN o.quality \in QualityInputs
                              ELSE o.quality = 0)
        /\ (IF o.has_skip THEN o.skip \in SkipInputs ELSE o.skip = 0)
        /\ (IF o.has_count THEN o.count \in CountInputs ELSE o.count = 0)
        /\ (IF o.has_pause THEN o.pause \in PauseInputs ELSE o.pause = 0)
        /\ GivenOptions(o) <= MaxOptions }

VARIABLES
    options,        \* the parsed command line
    cap,            \* check_capabilities(): the capabilities the driver
                    \* stored in cap (all clear before the query and when
                    \* it failed)
    format,         \* set_format(): whether parse_resolution was called,
                    \* and ok, fmt.pix.width, fmt.pix.height as it gave them
    pc,             \* position of the process in main()/initialize()/capture()
    fd,             \* V4L2Device::fd
    frames_taken,   \* V4L2Device::frames_taken
    buffers,        \* V4L2Device::buffers: per slot, mapping state and size
    initialized,    \* result of initialize()
    frames_skipped, \* capture(): frames_skipped
    status,         \* capture(): status
    bufferinfo,     \* capture(): bufferinfo.index
    bytesused,      \* capture(): bufferinfo.bytesused, the length of the
                    \* frame in the dequeued buffer (0 while the driver
                    \* holds the buffer)
    skip_frame,     \* capture(): skip_frame of the current iteration
    ok,             \* capture(): ok of the current iteration
    capture_result, \* what capture() returned: "none", "true", "false"
    exit_code,      \* process exit status, -1 while running
    owner,          \* per slot: "user", "queued" (driver), "filled" (driver)
    incoming,       \* driver: queued buffers, in the order they were queued
    done_list,      \* driver: filled buffers in completion order
    streaming,      \* driver: stream is on
    epoll,          \* "none", "created", "registered"
    ready,          \* edge-triggered readiness event pending for fd
    nfilled,        \* number of buffers the driver has filled
    nzero,          \* number of zero-result wake-ups since the last wait
                    \* that returned an event or failed
    codec,          \* the write_jpeg call of the current iteration: stage
                    \* results and decoder context (reset when the
                    \* iteration is over)
    frame_log,      \* per dequeued frame: what happened to it and the
                    \* name of the file write_jpeg was to write
    slept,          \* the arguments of the usleep calls of capture(), in order
    clock,          \* the value std::time() returned last
    trace,          \* device, mapping, codec and sleep calls issued by the
                    \* process, in order, and the readiness waits that
                    \* ended the loop
    image           \* decompress_jpeg()/compress_jpeg(): the RawImage of one
                    \* frame, the scanline of the codec and the bytes of
                    \* raw_data its last scanline call touched

vars == << options, cap, format, pc, fd, frames_taken, buffers, initialized,
           frames_skipped, status, bufferinfo, bytesused, skip_frame,
           ok, capture_result, exit_code, owner, incoming, done_list, streaming,
           epoll, ready, nfilled, nzero, codec, frame_log, clock, slept,
           trace, image >>

\* everything but the raw image
session == << options, cap, format, pc, fd, frames_taken, buffers, initialized,
              frames_skipped, status, bufferinfo, bytesused, skip_frame,
              ok, capture_result, exit_code, owner, incoming, done_list,
              streaming, epoll, ready, nfilled, nzero, codec, frame_log, clock,
              slept, trace >>

\* ---- helpers -------------------------------------------------------------
CountOf(s, name) == Cardinality({ k \in 1 .. Len(s) : s[k][1] = name })

\* A trace entry is << call, buffer index (0 when the call has none), whether
\* the call succeeded >>.
Call(name, idx, succeeded) == << name, idx, succeeded >>

Issued(name) == CountOf(trace, name)

CountOk(s, name) ==
    Cardinality({ k \in 1 .. Len(s) : s[k][1] = name /\ s[k][3] })

Succeeded(name) == CountOk(trace, name)

\* ---- parse_resolution ----------------------------------------------------
\* std::string::find("x"): index (1-based here) of the first "x", 0 if none
RECURSIVE FindX(_, _)
FindX(s, i) ==
    IF i > Len(s) THEN 0
    ELSE IF s[i] = "x" THEN i
    ELSE FindX(s, i + 1)

DigitValue(c) ==
    CASE c = "0" -> 0 [] c = "1" -> 1 [] c = "2" -> 2 [] c = "3" -> 3
      [] c = "4" -> 4 [] c = "5" -> 5 [] c = "6" -> 6 [] c = "7" -> 7
      [] c = "8" -> 8 [] c = "9" -> 9

RECURSIVE SkipSpace(_)
SkipSpace(s) ==
    IF s # << >> /\ Head(s) = " " THEN SkipSpace(Tail(s)) ELSE s

RECURSIVE DigitPrefix(_)
DigitPrefix(s) ==
    IF s # << >> /\ Head(s) \in Digits
    THEN << Head(s) >> \o DigitPrefix(Tail(s))
    ELSE << >>

\* A 32-bit unsigned value is kept as two 16-bit limbs, so that its width is
\* exact: ToUint32(v) is v modulo 2^32 for every integer v of the model.
LimbModulus == 65536

ToUint32(v) == [hi |-> (v \div LimbModulus) % LimbModulus,
                lo |-> v % LimbModulus]

Uint32IsZero(u) == u.hi = 0 /\ u.lo = 0

\* An unsigned long (64 bits on the LP64 targets the program is built for)
\* is kept as four 16-bit limbs, least significant first.
ULongZero == << 0, 0, 0, 0 >>

\* w * m + carry, limb by limb; carry is what leaves the top limb
RECURSIVE WideMulAdd(_, _, _)
WideMulAdd(w, m, carry) ==
    IF w = << >> THEN [limbs |-> << >>, carry |-> carry]
    ELSE LET t == Head(w) * m + carry
             r == WideMulAdd(Tail(w), m, t \div LimbModulus)
         IN  [limbs |-> << t % LimbModulus >> \o r.limbs, carry |-> r.carry]

\* the digits of s appended to the number acc; overflow when a carry left
\* the width of acc
RECURSIVE WideDecimal(_, _, _)
WideDecimal(s, acc, over) ==
    IF s = << >> THEN [value |-> acc, overflow |-> over]
    ELSE LET r == WideMulAdd(acc, 10, DigitValue(Head(s)))
         IN  WideDecimal(Tail(s), r.limbs, over \/ r.carry # 0)

\* negation in unsigned arithmetic: the complement of every limb, plus one
RECURSIVE WideNegate(_, _)
WideNegate(w, carry) ==
    IF w = << >> THEN << >>
    ELSE LET t == (LimbModulus - 1 - Head(w)) + carry
         IN  << t % LimbModulus >> \o WideNegate(Tail(w), t \div LimbModulus)

\* a + b + carry over limbs of the same width; the carry out of the top
\* limb is lost
RECURSIVE WideAdd(_, _, _)
WideAdd(a, b, carry) ==
    IF a = << >> THEN << >>
    ELSE LET t == Head(a) + Head(b) + carry
         IN  << t % LimbModulus >> \o WideAdd(Tail(a), Tail(b), t \div LimbModulus)

\* w * m in the width of w, for m below 2^16: the product with the high
\* byte of m, shifted, plus the product with its low byte
WideMul(w, m) ==
    WideAdd(WideMulAdd(WideMulAdd(w, m \div 256, 0).limbs, 256, 0).limbs,
            WideMulAdd(w, m % 256, 0).limbs, 0)

\* a < b for numbers of the same width
RECURSIVE WideLess(_, _)
WideLess(a, b) ==
    IF a = << >> THEN FALSE
    ELSE LET n == Len(a)
         IN  IF a[n] # b[n] THEN a[n] < b[n]
             ELSE WideLess(SubSeq(a, 1, n - 1), SubSeq(b, 1, n - 1))

\* the product of two unsigned int operands is an unsigned int
Uint32Mul(u, m) ==
    LET p == WideMul(<< u.lo, u.hi >>, m) IN [hi |-> p[2], lo |-> p[1]]

\* an unsigned int added to a pointer is zero-extended to 64 bits
ZeroExtend(u) == << u.lo, u.hi, 0, 0 >>

\* conversion of an unsigned long to uint32_t keeps the two low limbs
TruncateToUint32(w) == [hi |-> w[2], lo |-> w[1]]

\* std::stoul (strtoul, base 10): leading blanks are skipped, one sign is
\* accepted, the longest digit prefix is converted and the rest is ignored;
\* no digit at all is std::invalid_argument; a value that does not fit an
\* unsigned long is std::out_of_range; a leading "-" negates the value in
\* unsigned arithmetic.
stoul(str) ==
    LET s1 == SkipSpace(str)
        signed == s1 # << >> /\ Head(s1) \in {"+", "-"}
        neg == s1 # << >> /\ Head(s1) = "-"
        s2 == IF signed THEN Tail(s1) ELSE s1
        ds == DigitPrefix(s2)
        v == WideDecimal(ds, ULongZero, FALSE)
    IN  IF ds = << >> \/ v.overflow THEN [ok |-> FALSE, value |-> ULongZero]
        ELSE [ok |-> TRUE,
              value |-> IF neg THEN WideNegate(v.value, 1) ELSE v.value]

\* x and y are uint32_t: the unsigned long that stoul returns is truncated.
parse_resolution(resolution) ==
    LET delimeter == FindX(resolution, 1)
        zero == ToUint32(0)
    IN  IF delimeter # 0 /\ delimeter < Len(resolution)
        THEN LET x_str == SubSeq(resolution, 1, delimeter - 1)
                 y_str == SubSeq(resolution, delimeter + 1, Len(resolution))
                 px == stoul(x_str)
                 py == stoul(y_str)
             IN  IF ~px.ok THEN [ok |-> FALSE, x |-> zero, y |-> zero]
                 ELSE IF ~py.ok
                      THEN [ok |-> FALSE, x |-> TruncateToUint32(px.value),
                            y |-> zero]
                 ELSE [ok |-> TRUE, x |-> TruncateToUint32(px.value),
                       y |-> TruncateToUint32(py.value)]
        ELSE [ok |-> FALSE, x |-> zero, y |-> zero]

\* ---- initial state -------------------------------------------------------
\* the state of the process when main() is entered
ProcessStart ==
    /\ cap = [video_capture |-> FALSE, streaming |-> FALSE]
    /\ format = [parsed |-> FALSE, ok |-> FALSE,
                 width |-> ToUint32(0), height |-> ToUint32(0)]
    /\ pc = "main"
    /\ fd = -1
    /\ frames_taken = 0
    /\ buffers = [i \in Slots |-> [start |-> "null", size |-> 0]]
    /\ initialized = FALSE
    /\ frames_skipped = 0
    /\ status = TRUE
    /\ bufferinfo = 0
    /\ bytesused = 0
    /\ skip_frame = FALSE
    /\ ok = FALSE
    /\ capture_result = "none"
    /\ exit_code = -1
    /\ owner = [i \in Slots |-> "user"]
    /\ incoming = << >>
    /\ done_list = << >>
    /\ streaming = FALSE
    /\ epoll = "none"
    /\ ready = FALSE
    /\ nfilled = 0
    /\ nzero = 0
    /\ codec = [decode |-> "not_called", cinfo |-> "none",
                encode |-> "not_called", file_opened |-> FALSE,
                stream |-> "none", written |-> 0, message |-> "none"]
    /\ frame_log = << >>
    /\ clock = 0
    /\ slept = << >>
    /\ trace = << >>

\* no frame is in the codec
NoAccess == [by |-> "none", offset |-> ToUint32(0), length |-> ToUint32(0)]

NoImage == [stage |-> "none", width |-> 0, height |-> 0, components |-> 0,
            raw_size |-> ToUint32(0), scanline |-> 0, access |-> NoAccess]

Init == options \in OptionSets /\ ProcessStart /\ image = NoImage

\* ---- main(): validation of the command line ------------------------------
\* mutant: only the upper bound of the quality is checked
main_validate_upper_only(o) ==
    IF o.help THEN "help"
    ELSE IF o.has_quality /\ o.quality > 100 THEN "bad_quality"
    ELSE IF ~o.has_result THEN "no_result"
    ELSE "run"

\* lines 629-664: what main() decides before it constructs the device
main_validate(o) ==
    IF o.help THEN "help"
    ELSE IF o.has_quality /\ (o.quality < 0 \/ o.quality > 100)
         THEN "bad_quality"
    ELSE IF ~o.has_result THEN "no_result"
    ELSE "run"

main ==
    /\ pc = "main"
    /\ LET v == main_validate(options)
       IN  /\ pc' = IF v = "run" THEN "open_device" ELSE "exited"
           /\ exit_code' = CASE v = "help" -> EXIT_SUCCESS
                             [] v = "run" -> exit_code
                             [] OTHER -> EXIT_FAILURE
    /\ UNCHANGED << options, image, format, cap, fd, frames_taken, buffers, initialized,
                    frames_skipped, status, bufferinfo, bytesused, skip_frame, ok,
                    capture_result, owner, incoming, done_list, streaming, epoll,
                    ready, nfilled, nzero, codec, frame_log, clock, trace,
                    slept >>

\* ---- initialize() --------------------------------------------------------
\* initialize() is open_device() and check_capabilities() and set_format()
\* and init_buffers(): the first step that returns false ends it.
InitializeFails ==
    /\ initialized' = FALSE
    /\ pc' = "main_return"

\* An initialize() that sets the format before it checks the capabilities.
initialize_next_format_first(step) ==
    CASE step = "open_device" -> "set_format"
      [] step = "set_format" -> "check_capabilities"
      [] step = "check_capabilities" -> "init_buffers"

\* lines 100-103: the operand of the and-chain evaluated after a step that
\* returned true
initialize_next(step) ==
    CASE step = "open_device" -> "check_capabilities"
      [] step = "check_capabilities" -> "set_format"
      [] step = "set_format" -> "init_buffers"

\* An open_device() that never finds the handle open.
already_open_never(handle) == FALSE

\* line 282: fd == -1 is the test for a handle that was never opened
already_open(handle) == handle # -1

open_device ==
    /\ pc = "open_device"
    /\ IF ~already_open(fd)
       THEN \E opened \in BOOLEAN :
              /\ trace' = Append(trace, Call("open", 0, opened))
              /\ fd' = IF opened THEN 3 ELSE -1
              /\ IF opened
                 THEN /\ pc' = initialize_next("open_device")
                      /\ UNCHANGED initialized
                 ELSE InitializeFails
       ELSE /\ InitializeFails
            /\ UNCHANGED << fd, trace >>
    /\ UNCHANGED << options, image, format, cap, frames_taken, buffers, frames_skipped, status,
                    bufferinfo, bytesused, skip_frame, ok, capture_result, exit_code,
                    owner, incoming, done_list, streaming, epoll, ready, nfilled,
                    nzero, codec, frame_log, clock,
                    slept >>

\* A check that tests V4L2_CAP_VIDEO_CAPTURE alone.
capabilities_ok_capture_only(query_ok, declared) ==
    query_ok /\ declared.video_capture

\* lines 304-319: the query, then the two capability bits
capabilities_ok(query_ok, declared) ==
    query_ok /\ declared.video_capture /\ declared.streaming

check_capabilities ==
    /\ pc = "check_capabilities"
    /\ \E query_ok, cap_video_capture, cap_streaming \in BOOLEAN :
         LET declared == [video_capture |-> query_ok /\ cap_video_capture,
                          streaming |-> query_ok /\ cap_streaming]
         IN  /\ trace' = Append(trace, Call("VIDIOC_QUERYCAP", 0, query_ok))
             /\ cap' = declared
             /\ IF capabilities_ok(query_ok, declared)
                THEN /\ pc' = initialize_next("check_capabilities")
                     /\ UNCHANGED initialized
                ELSE InitializeFails
    /\ UNCHANGED << options, image, format, fd, frames_taken, buffers, frames_skipped,
                    status, bufferinfo, bytesused, skip_frame, ok, capture_result,
                    exit_code, owner, incoming, done_list, streaming, epoll, ready,
                    nfilled, nzero, codec, frame_log, clock,
                    slept >>

set_format ==
    /\ pc = "set_format"
    /\ LET res == parse_resolution(options.resolution)
       IN  /\ format' = [parsed |-> TRUE, ok |-> res.ok,
                         width |-> res.x, height |-> res.y]
           /\ IF ~res.ok
              THEN InitializeFails /\ UNCHANGED trace
              ELSE \E ioctl_ok \in BOOLEAN :
                     /\ trace' = Append(trace,
                                        Call("VIDIOC_S_FMT", 0, ioctl_ok))
                     /\ IF ioctl_ok
                        THEN /\ pc' = initialize_next("set_format")
                             /\ UNCHANGED initialized
                        ELSE InitializeFails
    /\ UNCHANGED << options, image, cap, fd, frames_taken, buffers, frames_skipped,
                    status, bufferinfo, bytesused, skip_frame, ok, capture_result,
                    exit_code, owner, incoming, done_list, streaming, epoll, ready,
                    nfilled, nzero, codec, frame_log, clock,
                    slept >>

\* The buffer loop without the MAP_FAILED test of lines 369-372: a failed
\* mapping is stored and the loop goes on to the next index.
RECURSIVE init_buffers_loop_ignores_map_failed(_, _, _, _, _, _)
init_buffers_loop_ignores_map_failed(i, granted, bad_query, bad_mmap, bufs, tr) ==
    IF i >= kBuffersCount THEN [ok |-> TRUE, buffers |-> bufs, trace |-> tr]
    ELSE LET query_ok == ~(i >= granted \/ i = bad_query)
             tq == Append(tr, Call("VIDIOC_QUERYBUF", i, query_ok))
         IN  IF ~query_ok
             THEN [ok |-> FALSE, buffers |-> bufs, trace |-> tq]
             ELSE init_buffers_loop_ignores_map_failed(i + 1, granted,
                      bad_query, bad_mmap,
                      [bufs EXCEPT ![i] =
                          IF i = bad_mmap
                          THEN [start |-> "MAP_FAILED", size |-> 0]
                          ELSE [start |-> "mapped", size |-> BufferLength]],
                      Append(tq, Call("mmap", i, i # bad_mmap)))

\* The buffer loop of init_buffers() from index i on. granted is the number
\* of buffers the driver allocated (VIDIOC_QUERYBUF fails from that index
\* on), bad_query and bad_mmap are the indices at which the query or the
\* mapping fails (kBuffersCount: nowhere).
RECURSIVE init_buffers_loop(_, _, _, _, _, _)
init_buffers_loop(i, granted, bad_query, bad_mmap, bufs, tr) ==
    IF i >= kBuffersCount THEN [ok |-> TRUE, buffers |-> bufs, trace |-> tr]
    ELSE LET query_ok == ~(i >= granted \/ i = bad_query)
             tq == Append(tr, Call("VIDIOC_QUERYBUF", i, query_ok))
         IN  IF ~query_ok
             THEN [ok |-> FALSE, buffers |-> bufs, trace |-> tq]
             ELSE LET tm == Append(tq, Call("mmap", i, i # bad_mmap))
                  IN  IF i = bad_mmap
                      THEN [ok |-> FALSE,
                            buffers |-> [bufs EXCEPT ![i].start = "MAP_FAILED"],
                            trace |-> tm]
                      ELSE init_buffers_loop(i + 1, granted, bad_query,
                               bad_mmap,
                               [bufs EXCEPT ![i] = [start |-> "mapped",
                                                    size |-> BufferLength]],
                               tm)

init_buffers ==
    /\ pc = "init_buffers"
    /\ \E reqbufs_ok \in BOOLEAN, granted \in 1 .. kBuffersCount,
          bad_query \in 0 .. kBuffersCount, bad_mmap \in 0 .. kBuffersCount :
         LET t0 == Append(trace, Call("VIDIOC_REQBUFS", 0, reqbufs_ok))
             r == init_buffers_loop(0, granted, bad_query, bad_mmap,
                                    buffers, t0)
         IN  IF ~reqbufs_ok
             THEN /\ trace' = t0
                  /\ InitializeFails
                  /\ UNCHANGED buffers
             ELSE /\ trace' = r.trace
                  /\ buffers' = r.buffers
                  /\ IF r.ok
                     THEN initialized' = TRUE /\ pc' = "capture"
                     ELSE InitializeFails
    /\ UNCHANGED << options, image, format, cap, fd, frames_taken, frames_skipped, status,
                    bufferinfo, bytesused, skip_frame, ok, capture_result, exit_code,
                    owner, incoming, done_list, streaming, epoll, ready, nfilled,
                    nzero, codec, frame_log, clock,
                    slept >>

\* ---- end of main(): exit status and destruction of the device ------------
\* ~V4L2Device closes fd when it is not -1; then the members are destroyed:
\* ~IOBuffer unmaps a slot whose start is not nullptr and whose size is > 0,
\* array elements in reverse order of construction.
\* A destructor that closes whatever the handle holds.
close_device_unguarded(f, tr) == Append(tr, Call("close", 0, TRUE))

\* ~V4L2Device, lines 91-96.
close_device(f, tr) ==
    IF f # -1 THEN Append(tr, Call("close", 0, TRUE)) ELSE tr

\* ~IOBuffer testing the address alone, without the size of line 240.
RECURSIVE destroy_buffers_ignores_size(_, _, _)
destroy_buffers_ignores_size(i, bufs, tr) ==
    IF i < 0 THEN tr
    ELSE destroy_buffers_ignores_size(i - 1, bufs,
             IF bufs[i].start # "null"
             THEN Append(tr, Call("munmap", i, TRUE))
             ELSE tr)

RECURSIVE destroy_buffers(_, _, _)
destroy_buffers(i, bufs, tr) ==
    IF i < 0 THEN tr
    ELSE destroy_buffers(i - 1, bufs,
             IF bufs[i].start # "null" /\ bufs[i].size > 0
             THEN Append(tr, Call("munmap", i, TRUE))
             ELSE tr)

main_return ==
    /\ pc = "main_return"
    /\ LET result == IF initialized THEN capture_result = "true" ELSE FALSE
           t0 == close_device(fd, trace)
       IN  /\ exit_code' = IF result THEN EXIT_SUCCESS ELSE EXIT_FAILURE
           /\ trace' = destroy_buffers(kBuffersCount - 1, buffers, t0)
    /\ pc' = "exited"
    /\ UNCHANGED << options, image, format, cap, fd, frames_taken, buffers, initialized,
                    frames_skipped, status, bufferinfo, bytesused, skip_frame, ok,
                    capture_result, owner, incoming, done_list, streaming, epoll,
                    ready, nfilled, nzero, codec, frame_log, clock,
                    slept >>

\* ---- the frame codec pipeline --------------------------------------------
\* What goes wrong inside write_jpeg for one frame is an input: the stage
\* at which it happens and how the library reports it.
\*   error_exit  the codec calls err->error_exit (a fatal codec error)
\*   rc          jpeg_read_header returns a value other than 1
\*   bad_alloc   operator new throws
\*   fail        the file cannot be opened / the stream write fails
\*   empty       make_jpeg_file_name returns the empty string
NoFault == [stage |-> "none", kind |-> "none"]

\* stream is the state of the std::fstream of the verbatim branch ("none",
\* "good", "open_failed", "write_failed"), written the number of bytes that
\* reached its file, message where the message of libjpeg went, if it made
\* one for the frame: "logged" (LOG(WARNING)), "suppressed" (dropped by the
\* callbacks of the decoder), "stderr" (printed by the library itself).
NoCodec == [decode |-> "not_called", cinfo |-> "none",
            encode |-> "not_called", file_opened |-> FALSE,
            stream |-> "none", written |-> 0, message |-> "none"]

DecodeStages ==
    << "jpeg_create_decompress", "jpeg_read_header", "jpeg_start_decompress",
       "new_raw_data", "jpeg_read_scanlines", "jpeg_finish_decompress" >>

EncodeStages ==
    << "jpeg_create_compress", "fopen", "jpeg_start_compress",
       "jpeg_write_scanlines", "jpeg_finish_compress" >>

DecodeFaults ==
    { [stage |-> st, kind |-> "error_exit"] :
        st \in { "jpeg_create_decompress", "jpeg_read_header",
                 "jpeg_start_decompress", "jpeg_read_scanlines",
                 "jpeg_finish_decompress" } }
    \cup { [stage |-> "jpeg_read_header", kind |-> "rc"],
           [stage |-> "new_raw_data", kind |-> "bad_alloc"],
           [stage |-> "jpeg_read_scanlines", kind |-> "warning"] }

EncodeFaults ==
    { [stage |-> st, kind |-> "error_exit"] :
        st \in { "jpeg_create_compress", "jpeg_start_compress",
                 "jpeg_write_scanlines", "jpeg_finish_compress" } }
    \cup { [stage |-> "fopen", kind |-> "fail"] }

VerbatimFaults ==
    { [stage |-> "fstream_open", kind |-> "fail"],
      [stage |-> "fstream_write", kind |-> "fail"] }

FileNameFault == [stage |-> "make_jpeg_file_name", kind |-> "empty"]

\* jpeg_error_exit_cb longjmps to the setjmp point of decompress_jpeg
\* (lines 507-517): the context is destroyed and false is returned.
decompress_on_error_exit ==
    [outcome |-> "false", cinfo |-> "destroyed"]

\* decompress_jpeg from stage k on; ctx is the state of the decoder context.
RECURSIVE decompress_from(_, _, _)
decompress_from(k, fault, ctx) ==
    IF k > Len(DecodeStages)
    THEN [outcome |-> "true", cinfo |-> "destroyed"]
    ELSE LET stage == DecodeStages[k]
             ctx1 == IF stage = "jpeg_create_decompress" THEN "created"
                     ELSE ctx
         IN  IF fault.stage = stage
             THEN CASE fault.kind = "error_exit" -> decompress_on_error_exit
                    [] fault.kind = "rc" ->
                         [outcome |-> "false", cinfo |-> ctx1]
                    \* emit_message calls output_message and returns
                    [] fault.kind = "warning" ->
                         decompress_from(k + 1, fault, ctx1)
                    [] OTHER ->
                         [outcome |-> "throw", cinfo |-> ctx1]
             ELSE decompress_from(k + 1, fault, ctx1)

decompress_jpeg(fault) == decompress_from(1, fault, "none")

\* compress_jpeg installs jpeg_std_error(&jerr) and nothing else: error_exit
\* is the library's default, which prints the message and calls
\* exit(EXIT_FAILURE).
compress_on_error_exit(opened) ==
    [outcome |-> "exit", file_opened |-> opened]

RECURSIVE compress_from(_, _, _)
compress_from(k, fault, opened) ==
    IF k > Len(EncodeStages)
    THEN [outcome |-> "true", file_opened |-> opened]
    ELSE LET stage == EncodeStages[k]
         IN  IF fault.stage = stage
             THEN IF fault.kind = "error_exit"
                  THEN compress_on_error_exit(opened)
                  ELSE [outcome |-> "false", file_opened |-> FALSE]
             ELSE compress_from(k + 1, fault, opened \/ stage = "fopen")

compress_jpeg(fault) == compress_from(1, fault, FALSE)

\* A decoder whose callbacks log whatever --quiet says.
decoder_message_always_logged(o) == "logged"

\* jpeg_output_message_cb (lines 69-79) and the setjmp branch of
\* decompress_jpeg (lines 507-517): the message of the decoder goes to
\* LOG(WARNING) unless --quiet was given
decoder_message(o) == IF o.quiet THEN "suppressed" ELSE "logged"

\* Where the message that libjpeg made for the fault went. compress_jpeg
\* (line 564) keeps the output_message of jpeg_std_error, which prints to
\* stderr; the default error_exit calls it before exit().
codec_message(o, fault, decoded) ==
    IF fault \in DecodeFaults /\ fault.kind \in {"warning", "error_exit"}
    THEN decoder_message(o)
    ELSE IF decoded /\ fault \in EncodeFaults /\ fault.kind = "error_exit"
    THEN "stderr"
    ELSE "none"

\* write_jpeg for one frame: outcome is "true"/"false" (what it returns) or
\* "exit" (the process was terminated inside it).
\* make_jpeg_file_name, lines 418-439: the template is expanded with the
\* time of the call (--strftime) or with frames_taken. The template is taken
\* to hold a conversion of the value it is expanded with, so the name is the
\* kind of expansion and the value; rc <= 0 (FileNameFault) gives NoName.
NoName == << "none", 0 >>

\* A name that counts the persisted frames from one.
make_jpeg_file_name_from_one(o, taken, now) ==
    IF o.strftime THEN << "strftime", now >> ELSE << "snprintf", taken + 1 >>

make_jpeg_file_name(o, taken, now) ==
    IF o.strftime THEN << "strftime", now >> ELSE << "snprintf", taken >>

\* info is the v4l2_buffer that VIDIOC_DQBUF filled in: index, length (the
\* size of the buffer) and bytesused (the size of the frame in it).
write_jpeg(o, fault, info) ==
    LET untouched == NoCodec
    IN  IF fault = FileNameFault
        THEN [outcome |-> "false", codec |-> untouched]
        ELSE IF o.save_jpeg_asis
        THEN IF fault.stage = "fstream_open"
             THEN [outcome |-> "false",
                   codec |-> [untouched EXCEPT !.stream = "open_failed"]]
             \* std::fstream::write does not throw (no exception mask is
             \* set): a failed write sets badbit, the catch of line 462 is
             \* never entered and write_jpeg returns true
             ELSE IF fault.stage = "fstream_write"
             THEN [outcome |-> "true",
                   codec |-> [untouched EXCEPT !.file_opened = TRUE,
                                               !.stream = "write_failed"]]
             \* line 461: result.write(start, bufferinfo.length)
             ELSE [outcome |-> "true",
                   codec |-> [untouched EXCEPT !.file_opened = TRUE,
                                               !.stream = "good",
                                               !.written = info.length]]
        ELSE LET d == decompress_jpeg(fault)
                 decoded == [untouched EXCEPT
                               !.decode = d.outcome,
                               !.cinfo = d.cinfo,
                               !.message = codec_message(o, fault,
                                               d.outcome = "true")]
             IN  IF d.outcome # "true"
                 \* not ok, or std::exception caught at line 487
                 THEN [outcome |-> "false", codec |-> decoded]
                 ELSE LET e == compress_jpeg(fault)
                      IN  [outcome |-> e.outcome,
                           codec |-> [decoded EXCEPT
                                        !.encode = e.outcome,
                                        !.file_opened = e.file_opened]]

WriteFaults(o) ==
    { NoFault, FileNameFault }
    \cup (IF o.save_jpeg_asis THEN VerbatimFaults
          ELSE DecodeFaults \cup EncodeFaults)

\* ---- capture() -----------------------------------------------------------
\* locals read from the options at lines 155-159
frames_count(o) == IF o.has_count THEN o.count ELSE 1

\* A capture() that never reads --skip.
frames_to_skip_unread(o) == 0

\* line 158: frames_to_skip
frames_to_skip(o) == IF o.has_skip THEN o.skip ELSE 0

\* line 159: std::lround(seconds * 1e6), a long, as four limbs; a negative
\* value is the two's complement of its magnitude
pause_lround(o) ==
    LET seconds == IF o.has_pause THEN o.pause ELSE 0
        magnitude == IF seconds < 0 THEN -seconds ELSE seconds
        thousand == 1000
        millis == WideMulAdd(<< magnitude, 0, 0, 0 >>, thousand, 0).limbs
        micros == WideMulAdd(millis, UsecPerSec \div thousand, 0).limbs
    IN  IF seconds < 0 THEN WideNegate(micros, 1) ELSE micros

\* line 159: useconds_t pause = std::lround(seconds * 1e6): the long is
\* converted to a 32-bit unsigned value
pause_useconds(o) == TruncateToUint32(pause_lround(o))

\* return <value> from capture(): main() goes on to its return statement
CaptureReturns(value) ==
    /\ capture_result' = IF value THEN "true" ELSE "false"
    /\ pc' = "main_return"

\* An enqueue step that hands only the first buffer to the driver.
enqueue_loop_first_only(i, bad, own, inc, tr) ==
    [ok |-> bad # 0, index |-> 0,
     owner |-> IF bad # 0 THEN [own EXCEPT ![0] = "queued"] ELSE own,
     incoming |-> IF bad # 0 THEN Append(inc, 0) ELSE inc,
     trace |-> Append(tr, Call("VIDIOC_QBUF", 0, bad # 0))]

\* the initial queueing loop, lines 112-124; bad is the index at which
\* VIDIOC_QBUF fails (kBuffersCount: nowhere)
RECURSIVE enqueue_loop(_, _, _, _, _)
enqueue_loop(i, bad, own, inc, tr) ==
    IF i >= kBuffersCount
    THEN [ok |-> TRUE, owner |-> own, incoming |-> inc, trace |-> tr,
          index |-> kBuffersCount - 1]
    ELSE IF i = bad
         THEN [ok |-> FALSE, owner |-> own, incoming |-> inc, index |-> i,
               trace |-> Append(tr, Call("VIDIOC_QBUF", i, FALSE))]
         ELSE enqueue_loop(i + 1, bad, [own EXCEPT ![i] = "queued"],
                           Append(inc, i),
                           Append(tr, Call("VIDIOC_QBUF", i, TRUE)))

capture_enqueue ==
    /\ pc = "capture"
    /\ \E bad \in 0 .. kBuffersCount :
         LET r == enqueue_loop(0, bad, owner, incoming, trace)
         IN  /\ owner' = r.owner
             /\ incoming' = r.incoming
             /\ trace' = r.trace
             /\ bufferinfo' = r.index
             /\ status' = TRUE
             /\ UNCHANGED bytesused
             /\ IF r.ok
                THEN pc' = "streamon" /\ UNCHANGED capture_result
                ELSE CaptureReturns(FALSE)
    /\ UNCHANGED << options, image, format, cap, fd, frames_taken, buffers, initialized,
                    frames_skipped, skip_frame, ok, exit_code, done_list,
                    streaming, epoll, ready, nfilled, nzero, codec,
                    frame_log, clock,
                    slept >>

\* A capture() that goes to its VIDIOC_STREAMOFF when VIDIOC_STREAMON failed.
after_streamon_stops_stream(ioctl_ok) ==
    IF ioctl_ok THEN "epoll_create" ELSE "streamoff"

\* lines 126-131: where capture() goes after VIDIOC_STREAMON
after_streamon(ioctl_ok) ==
    IF ioctl_ok THEN "epoll_create" ELSE "main_return"

capture_streamon ==
    /\ pc = "streamon"
    /\ \E ioctl_ok \in BOOLEAN :
         /\ trace' = Append(trace, Call("VIDIOC_STREAMON", 0, ioctl_ok))
         /\ streaming' = ioctl_ok
         /\ IF after_streamon(ioctl_ok) = "main_return"
            THEN CaptureReturns(FALSE)
            ELSE /\ pc' = after_streamon(ioctl_ok)
                 /\ UNCHANGED capture_result
    /\ UNCHANGED << options, image, format, cap, fd, frames_taken, buffers, initialized,
                    frames_skipped, status, bufferinfo, bytesused, skip_frame, ok,
                    exit_code, owner, incoming, done_list, epoll, ready, nfilled,
                    nzero, codec, frame_log, clock,
                    slept >>

capture_epoll_create ==
    /\ pc = "epoll_create"
    /\ \E created \in BOOLEAN :
         /\ trace' = Append(trace, Call("epoll_create", 0, created))
         /\ IF created
            THEN /\ epoll' = "created"
                 /\ pc' = "epoll_ctl"
                 /\ UNCHANGED capture_result
            ELSE /\ CaptureReturns(FALSE)
                 /\ UNCHANGED epoll
    /\ UNCHANGED << options, image, format, cap, fd, frames_taken, buffers, initialized,
                    frames_skipped, status, bufferinfo, bytesused, skip_frame, ok,
                    exit_code, owner, incoming, done_list, streaming, ready, nfilled,
                    nzero, codec, frame_log, clock,
                    slept >>

\* A registration that reports only the buffers completed after it.
readable_at_add_edges_only(done) == FALSE

\* line 145: EPOLL_CTL_ADD polls the descriptor, which is readable when the
\* driver holds a completed buffer, and reports it at once
readable_at_add(done) == done # << >>

\* EPOLL_CTL_ADD reports at once a descriptor that is already readable.
capture_epoll_ctl ==
    /\ pc = "epoll_ctl"
    /\ \E added \in BOOLEAN :
         /\ trace' = Append(trace, Call("epoll_ctl", 0, added))
         /\ IF added
            THEN /\ epoll' = "registered"
                 /\ ready' = readable_at_add(done_list)
                 /\ frames_skipped' = 0
                 /\ pc' = "loop"
                 /\ UNCHANGED capture_result
            ELSE /\ CaptureReturns(FALSE)
                 /\ UNCHANGED << epoll, ready, frames_skipped >>
    /\ UNCHANGED << options, image, format, cap, fd, frames_taken, buffers, initialized,
                    status, bufferinfo, bytesused, skip_frame, ok, exit_code, owner,
                    incoming, done_list, streaming, nfilled, nzero, codec, frame_log, clock,
                    slept >>

\* mutant: the loop flag is not part of the condition
loop_condition_count_only(taken, o) == taken < frames_count(o)

\* the condition of the while statement, line 161
loop_condition(taken, o) == (taken < frames_count(o)) \/ o.loop

capture_loop_exit ==
    /\ pc = "loop"
    /\ ~loop_condition(frames_taken, options)
    /\ pc' = "streamoff"
    /\ UNCHANGED << options, image, format, cap, fd, frames_taken, buffers, initialized,
                    frames_skipped, status, bufferinfo, bytesused, skip_frame, ok,
                    capture_result, exit_code, owner, incoming, done_list, streaming,
                    epoll, ready, nfilled, nzero, codec, frame_log, clock, trace,
                    slept >>

\* epoll_wait, lines 162-178. wake is what the kernel reports:
\*   "error"  epoll_wait returns -1
\*   "zero"   epoll_wait returns 0
\*   "hangup" an event with EPOLLERR or EPOLLHUP, or without EPOLLIN
\*   "in"     EPOLLIN: the edge-triggered event of a filled buffer
\* The event tests of lines 172-174 left out: a wake-up that is not a failed
\* or empty wait goes on to VIDIOC_DQBUF.
wake_outcome_untested_events(wake) ==
    CASE wake = "error" -> "break"
      [] wake = "zero" -> "continue"
      [] OTHER -> "dequeue"

\* lines 164-178: what the loop does after epoll_wait returned. "error" is
\* rc == -1, "zero" is rc == 0, "hangup" is an event with EPOLLERR or
\* EPOLLHUP or without EPOLLIN, "in" is a plain EPOLLIN event.
wake_outcome(wake) ==
    CASE wake \in {"error", "hangup"} -> "break"
      [] wake = "zero" -> "continue"
      [] OTHER -> "dequeue"

capture_epoll_wait ==
    /\ pc = "loop"
    /\ loop_condition(frames_taken, options)
    /\ \E wake \in {"error", "zero", "hangup", "in"} :
         /\ (wake = "in") => (ready /\ done_list # << >>)
         /\ (wake = "zero") => (nzero < MaxZeroWakes)
         /\ trace' = IF wake \in {"error", "hangup"}
                     THEN Append(trace, Call("epoll_wait", 0, FALSE))
                     ELSE trace
         /\ nzero' = IF wake = "zero" THEN nzero + 1 ELSE 0
         /\ ready' = IF wake = "in" THEN FALSE ELSE ready
         /\ status' = IF wake_outcome(wake) = "break" THEN FALSE ELSE status
         /\ pc' = CASE wake_outcome(wake) = "break" -> "streamoff"
                    [] wake_outcome(wake) = "continue" -> "loop"
                    [] OTHER -> "dqbuf"
    /\ UNCHANGED << options, image, format, cap, fd, frames_taken, buffers, initialized,
                    frames_skipped, bufferinfo, bytesused, skip_frame, ok,
                    capture_result, exit_code, owner, incoming, done_list, streaming,
                    epoll, nfilled, codec, frame_log, clock,
                    slept >>

\* The sizes of the frame that VIDIOC_DQBUF may report in bytesused. The
\* program never reads the field and only the file of the verbatim branch is
\* compared with it, so it is varied for --save-jpeg-asis and is the length
\* of the buffer otherwise.
FrameSizes(o) ==
    IF o.save_jpeg_asis THEN 1 .. BufferLength ELSE {BufferLength}

\* VIDIOC_DQBUF, lines 180-185: the oldest filled buffer is handed to the
\* process and bufferinfo.index names its slot.
capture_dqbuf ==
    /\ pc = "dqbuf"
    /\ \E ioctl_ok \in BOOLEAN, used \in FrameSizes(options) :
         IF ioctl_ok
         THEN /\ done_list # << >>
              /\ bufferinfo' = Head(done_list)
              /\ bytesused' = used
              /\ done_list' = Tail(done_list)
              /\ owner' = [owner EXCEPT ![Head(done_list)] = "user"]
              /\ trace' = Append(trace,
                                 Call("VIDIOC_DQBUF", Head(done_list), TRUE))
              /\ pc' = "frame"
              /\ UNCHANGED status
         ELSE /\ trace' = Append(trace, Call("VIDIOC_DQBUF", 0, FALSE))
              /\ status' = FALSE
              /\ pc' = "streamoff"
              /\ UNCHANGED << bufferinfo, bytesused, done_list, owner >>
    /\ UNCHANGED << incoming, options, image, format, cap, fd, frames_taken, buffers, initialized,
                    frames_skipped, skip_frame, ok, capture_result,
                    exit_code, streaming, epoll, ready, nfilled, nzero,
                    codec, frame_log, clock,
                    slept >>

\* mutant: the quota comparison admits one frame too many
skip_decision_off_by_one(o, skipped) ==
    frames_to_skip(o) > 0 /\ skipped <= frames_to_skip(o)

\* skip_frame, line 187
skip_decision(o, skipped) ==
    frames_to_skip(o) > 0 /\ skipped < frames_to_skip(o)

\* mutant: a codec failure never ends the loop
frame_policy_never_aborts(o, skip, outcome) ==
    IF skip THEN "skipped"
    ELSE IF outcome = "true" THEN "persisted"
    ELSE "failed"

\* mutant: frames_taken++ is outside the else branch
frame_policy_counts_failed(o, skip, outcome) ==
    IF skip THEN "skipped"
    ELSE IF outcome = "true" THEN "persisted"
    ELSE IF o.ignore_jpeg_errors THEN "persisted"
    ELSE "abort"

\* What lines 187-202 do with the result of the frame: "skipped",
\* "persisted", "failed" (codec failure, loop goes on), "abort" (codec
\* failure, break)
frame_policy(o, skip, outcome) ==
    IF skip THEN "skipped"
    ELSE IF outcome = "true" THEN "persisted"
    ELSE IF o.ignore_jpeg_errors THEN "failed"
    ELSE "abort"

\* lines 187-202: skip the frame or hand it to write_jpeg
\* A frame handler that always reads the first slot of the pool.
read_slot_first(dequeued) == 0

\* lines 444 and 461 (verbatim), 521 (decoder source): the slot write_jpeg
\* reads is buffers[bufferinfo.index]
read_slot(dequeued) == dequeued

capture_frame ==
    /\ pc = "frame"
    /\ LET skip == skip_decision(options, frames_skipped)
       IN  \E fault \in (IF skip THEN {NoFault} ELSE WriteFaults(options)),
              now \in (IF ~skip /\ options.strftime THEN clock .. MaxTime
                       ELSE {clock}) :
             LET w == write_jpeg(options, fault,
                                 [index |-> bufferinfo,
                                  length |-> buffers[bufferinfo].size,
                                  bytesused |-> bytesused])
                 what == frame_policy(options, skip, w.outcome)
                 name == IF skip \/ fault = FileNameFault THEN NoName
                         ELSE make_jpeg_file_name(options, frames_taken, now)
             IN  /\ skip_frame' = skip
                 /\ clock' = now
                 /\ IF skip
                    THEN /\ UNCHANGED << codec, trace, exit_code >>
                         /\ pc' = "requeue"
                    ELSE /\ codec' = w.codec
                         /\ trace' = Append(trace,
                                IF w.outcome = "exit"
                                THEN Call("exit", EXIT_FAILURE, TRUE)
                                ELSE Call("write_jpeg",
                                          read_slot(bufferinfo),
                                          w.outcome = "true"))
                         /\ IF w.outcome = "exit"
                            THEN pc' = "exited" /\ exit_code' = EXIT_FAILURE
                            ELSE /\ pc' = IF what = "abort" THEN "streamoff"
                                          ELSE "requeue"
                                 /\ UNCHANGED exit_code
                 /\ IF ~skip /\ w.outcome = "exit"
                    THEN UNCHANGED << ok, status, frames_taken,
                                      frames_skipped, frame_log >>
                    ELSE /\ ok' = (what = "persisted")
                         /\ status' = IF what = "abort" THEN FALSE ELSE status
                         /\ frames_taken' = IF what = "persisted"
                                            THEN frames_taken + 1
                                            ELSE frames_taken
                         /\ frames_skipped' = IF what = "skipped"
                                              THEN frames_skipped + 1
                                              ELSE frames_skipped
                         /\ frame_log' = Append(frame_log,
                                [index |-> bufferinfo, what |-> what,
                                 name |-> name])
    /\ UNCHANGED << options, image, format, cap, fd, buffers, initialized, bufferinfo, bytesused,
                    capture_result, owner, incoming, done_list, streaming, epoll,
                    ready, nfilled, nzero,
                    slept >>

\* pacing, line 215
sleeps(o, skip, persisted) ==
    ~Uint32IsZero(pause_useconds(o)) /\ ~skip /\ persisted

\* mutant: the index is reset to 0 together with type and memory
requeue_slot_reset(dequeued) == 0

\* lines 204-209: the v4l2_buffer that VIDIOC_DQBUF filled in is passed to
\* VIDIOC_QBUF again with type and memory reset; its index is left as it is
requeue_slot(dequeued) == dequeued

\* lines 204-217: give the slot back to the driver, then pace
capture_requeue ==
    /\ pc = "requeue"
    /\ \E ioctl_ok \in BOOLEAN :
         LET slot == requeue_slot(bufferinfo)
             tq == Append(trace, Call("VIDIOC_QBUF", slot, ioctl_ok))
         IN  IF ioctl_ok
             THEN /\ owner' = [owner EXCEPT ![slot] = "queued"]
                  \* the driver clears bytesused of a queued capture buffer
                  /\ bytesused' = 0
                  /\ incoming' = Append(incoming, slot)
                  /\ IF sleeps(options, skip_frame, ok)
                     THEN /\ trace' = Append(tq, Call("usleep", 0, TRUE))
                          /\ slept' = Append(slept, pause_useconds(options))
                     ELSE /\ trace' = tq
                          /\ UNCHANGED slept
                  /\ pc' = "loop"
                  /\ UNCHANGED status
             ELSE /\ trace' = tq
                  /\ status' = FALSE
                  /\ pc' = "streamoff"
                  /\ UNCHANGED << owner, incoming, bytesused, slept >>
    /\ codec' = NoCodec
    /\ UNCHANGED << options, image, format, cap, fd, frames_taken, buffers, initialized,
                    frames_skipped, bufferinfo, skip_frame, ok,
                    capture_result, exit_code, done_list, streaming, epoll,
                    ready, nfilled, nzero, frame_log, clock >>

\* A capture() that returns the accumulated status whatever VIDIOC_STREAMOFF
\* returned.
streamoff_result_status_only(ioctl_ok, st) == st

\* lines 220-226: the value capture() returns after VIDIOC_STREAMOFF
streamoff_result(ioctl_ok, st) == IF ioctl_ok THEN st ELSE FALSE

\* lines 220-226: VIDIOC_STREAMOFF takes every buffer out of the queues
capture_streamoff ==
    /\ pc = "streamoff"
    /\ \E ioctl_ok \in BOOLEAN :
         /\ trace' = Append(trace, Call("VIDIOC_STREAMOFF", 0, ioctl_ok))
         /\ IF ioctl_ok
            THEN /\ streaming' = FALSE
                 /\ owner' = [i \in Slots |-> "user"]
                 /\ incoming' = << >>
                 /\ done_list' = << >>
                 /\ ready' = FALSE
            ELSE UNCHANGED << streaming, owner, incoming, done_list, ready >>
         /\ CaptureReturns(streamoff_result(ioctl_ok, status))
    /\ codec' = NoCodec
    /\ bytesused' = 0
    /\ UNCHANGED << options, image, format, cap, fd, frames_taken, buffers, initialized,
                    frames_skipped, status, bufferinfo, skip_frame, ok,
                    exit_code, epoll, nfilled, nzero, frame_log, clock,
                    slept >>

\* ---- the driver ----------------------------------------------------------
\* While the stream is on the driver fills the buffer at the head of its
\* incoming queue (the queues of the V4L2 streaming interface are FIFOs),
\* appends it to its list of completed buffers and wakes the waiters of the
\* descriptor; the registration is edge-triggered (EPOLLET, line 143), so
\* each completion raises one readiness event.
fill_buffer ==
    /\ pc # "exited"
    /\ streaming
    /\ incoming # << >>
    /\ owner' = [owner EXCEPT ![Head(incoming)] = "filled"]
    /\ done_list' = Append(done_list, Head(incoming))
    /\ incoming' = Tail(incoming)
    /\ ready' = IF epoll = "registered" THEN TRUE ELSE ready
    \* nfilled counts the completed buffers up to MaxFrames
    /\ nfilled' = IF nfilled < MaxFrames THEN nfilled + 1 ELSE nfilled
    /\ UNCHANGED << options, image, format, cap, pc, fd, frames_taken, buffers, initialized,
                    frames_skipped, status, bufferinfo, bytesused, skip_frame, ok,
                    capture_result, exit_code, streaming, epoll, nzero,
                    codec, frame_log, clock, trace,
                    slept >>

\* a driver that stops after MaxFrames completed buffers
driver_fill ==
    /\ nfilled < MaxFrames
    /\ fill_buffer

Next ==
    \/ main
    \/ open_device
    \/ check_capabilities
    \/ set_format
    \/ init_buffers
    \/ capture_enqueue
    \/ capture_streamon
    \/ capture_epoll_create
    \/ capture_epoll_ctl
    \/ capture_loop_exit
    \/ capture_epoll_wait
    \/ capture_dqbuf
    \/ capture_frame
    \/ capture_requeue
    \/ capture_streamoff
    \/ driver_fill
    \/ main_return

Spec == Init /\ [][Next]_vars

\* ---- sessions that differ in the --resolution string only ------------------
\* decimal strings around the widths of uint32_t and unsigned long
DigitStrings ==
    { << "0" >>,
      << "7" >>,
      << "0", "0", "7" >>,
      << "6", "4", "0" >>,
      << "6", "5", "5", "3", "6" >>,
      << "4", "2", "9", "4", "9", "6", "7", "2", "9", "5" >>,
      << "4", "2", "9", "4", "9", "6", "7", "2", "9", "6" >>,
      << "4", "2", "9", "4", "9", "6", "7", "9", "3", "6" >>,
      << "1", "8", "4", "4", "6", "7", "4", "4", "0", "7", "3", "7", "0", "9", "5", "5", "1", "6", "1", "5" >>,
      << "1", "8", "4", "4", "6", "7", "4", "4", "0", "7", "3", "7", "0", "9", "5", "5", "1", "6", "1", "6" >> }

\* strings without a separator, with an empty component, or with a sign, a
\* blank or a letter in a component
MalformedResolutions ==
    { << "6", "4" >>, << "x", "4" >>, << "6", "x" >>, << "a", "x", "4" >>,
      << "6", "x", "b" >>,
      << "-", "6", "x", "4" >>, << "+", "6", "x", "4" >>,
      << " ", "6", "x", "4" >>, << "6", "x", " ", "4" >>,
      << "6", "p", "x", "4" >>, << "6", "x", "4", "p" >>,
      << "6", "x", "4", "x", "2" >> }

ParseResolutionInputs ==
    { w \o << "x" >> \o h : w, h \in DigitStrings } \cup MalformedResolutions

\* --result and --resolution given, every other option absent
ParseOptionSets ==
    { [help |-> FALSE, has_result |-> TRUE, resolution |-> r,
       has_quality |-> FALSE, quality |-> 0, has_skip |-> FALSE, skip |-> 0,
       has_count |-> FALSE, count |-> 0, has_pause |-> FALSE, pause |-> 0,
       loop |-> FALSE, strftime |-> FALSE, save_jpeg_asis |-> FALSE,
       ignore_jpeg_errors |-> FALSE, quiet |-> FALSE] :
        r \in ParseResolutionInputs }

InitParse == options \in ParseOptionSets /\ ProcessStart /\ image = NoImage

SpecParse == InitParse /\ [][Next]_vars

\* ---- initialize() called again -------------------------------------------
\* initialize() is a public member of V4L2Device: a caller that holds the
\* device after a first initialize() (which succeeded, or failed after the
\* open) can call it again. main() with such a second call: its result is
\* the ok that decides between capture() and the return statement.
initialize_again ==
    /\ pc \in {"capture", "main_return"}
    /\ capture_result = "none"
    /\ fd # -1
    /\ pc' = "open_device"
    /\ UNCHANGED << options, image, format, cap, fd, frames_taken, buffers,
                    initialized, frames_skipped, status, bufferinfo,
                    bytesused, skip_frame, ok, capture_result, exit_code,
                    owner, incoming, done_list, streaming, epoll, ready,
                    nfilled, nzero, codec, frame_log, clock, slept, trace >>

\* the command lines that give --result and at most one more option
ReinitOptionSets ==
    { o \in OptionSets : o.has_result /\ GivenOptions(o) <= 2 }

InitReinit == options \in ReinitOptionSets /\ ProcessStart /\ image = NoImage

NextReinit == Next \/ initialize_again

SpecReinit == InitReinit /\ [][NextReinit]_vars

\* ---- a driver that goes on filling ---------------------------------------
\* The steps of the process, main() from its start to its return.
Process ==
    \/ main
    \/ open_device
    \/ check_capabilities
    \/ set_format
    \/ init_buffers
    \/ capture_enqueue
    \/ capture_streamon
    \/ capture_epoll_create
    \/ capture_epoll_ctl
    \/ capture_loop_exit
    \/ capture_epoll_wait
    \/ capture_dqbuf
    \/ capture_frame
    \/ capture_requeue
    \/ capture_streamoff
    \/ main_return

\* The steps the scheduler owes the process: every step but an epoll_wait
\* (timeout -1, line 162) that returns without an event of a filled buffer.
\* While no event is pending the process is blocked in the wait.
Progress ==
    \/ Process /\ pc # "loop"
    \/ capture_loop_exit
    \/ capture_epoll_wait /\ pc' = "dqbuf"

\* command lines with --result and any of --count, --skip, --pause
LiveOptionSets ==
    { o \in OptionSets :
        /\ o.has_result
        /\ GivenOptions(o) = 1 + Given(o.has_count) + Given(o.has_skip)
                                + Given(o.has_pause) }

InitLive == options \in LiveOptionSets /\ ProcessStart /\ image = NoImage

NextLive == Process \/ fill_buffer

\* the process runs whenever it is not blocked, and the driver completes a
\* queued buffer whenever it has one
SpecLive ==
    InitLive /\ [][NextLive]_vars /\ WF_vars(Progress) /\ WF_vars(fill_buffer)

\* ---- decompress_jpeg() and compress_jpeg(): the raw image -----------------
\* The width and height of a frame are the 16-bit fields of its header;
\* cinfo.output_components is 1 (grayscale), 3 (YCbCr, RGB) or 4 (CMYK, YCCK).
ImageDimensions == {1, 2, 3, 32768, 43691, 65535}

ImageComponents == {1, 3, 4}

\* line 535: auto row_stride = width * pixel_size (unsigned int)
decompress_row_stride(width, pixel_size) ==
    Uint32Mul(ToUint32(width), pixel_size)

\* line 536: auto raw_size = width * height * pixel_size, evaluated from the
\* left in unsigned int
raw_size(width, height, pixel_size) ==
    Uint32Mul(Uint32Mul(ToUint32(width), height), pixel_size)

\* line 588: auto row_stride = image->width * 3 (unsigned int)
compress_row_stride(width) == Uint32Mul(ToUint32(width), 3)

\* the bytes [offset, offset + length) lie in a buffer of size bytes
InsideBuffer(access, size) ==
    ~WideLess(ZeroExtend(size),
              WideAdd(ZeroExtend(access.offset), ZeroExtend(access.length), 0))

\* An access outside raw_data is undefined: the process goes on with
\* whatever memory it touched, or it is killed.
AccessOutcomes(access, size) ==
    IF InsideBuffer(access, size) THEN {"done"} ELSE {"done", "killed"}

\* sessions that recompress their frames
ImageOptionSets ==
    { o \in OptionSets : o.has_result /\ ~o.save_jpeg_asis /\ GivenOptions(o) = 1 }

ImageHeaders ==
    { [NoImage EXCEPT !.stage = "frame", !.width = w, !.height = h,
                      !.components = c] :
        w \in ImageDimensions, h \in ImageDimensions, c \in ImageComponents }

\* lines 532-542: the sizes are taken from the decoder and raw_data is
\* allocated; operator new[] throws std::bad_alloc when it has no memory
decompress_allocate ==
    /\ image.stage = "frame"
    /\ \E alloc_ok \in BOOLEAN :
           image' = IF alloc_ok
                    THEN [image EXCEPT
                            !.stage = "decoding",
                            !.raw_size = raw_size(image.width, image.height,
                                                  image.components),
                            !.scanline = 0]
                    ELSE [image EXCEPT !.stage = "bad_alloc"]
    /\ UNCHANGED session

\* lines 544-548: one scanline is decoded to
\* raw_data + output_scanline * row_stride
decompress_read_scanline ==
    /\ image.stage = "decoding"
    /\ image.scanline < image.height
    /\ image.scanline < MaxScanlines
    /\ LET row_stride == decompress_row_stride(image.width, image.components)
           access == [by |-> "jpeg_read_scanlines",
                      offset |-> Uint32Mul(row_stride, image.scanline),
                      length |-> row_stride]
       IN  \E outcome \in AccessOutcomes(access, image.raw_size) :
               image' = [image EXCEPT
                           !.access = access,
                           !.scanline = @ + 1,
                           !.stage = IF outcome = "killed" THEN "killed" ELSE @]
    /\ UNCHANGED session

\* lines 544 and 550-553: the loop is over, the image is returned
decompress_finish ==
    /\ image.stage = "decoding"
    /\ image.scanline = image.height
    /\ image' = [image EXCEPT !.stage = "decoded"]
    /\ UNCHANGED session

\* lines 575-586: the encoder is given image->width, image->height and three
\* components
compress_start ==
    /\ image.stage = "decoded"
    /\ image' = [image EXCEPT !.stage = "encoding", !.scanline = 0]
    /\ UNCHANGED session

\* lines 588-592: one scanline is encoded from
\* raw_data[next_scanline * row_stride]
compress_write_scanline ==
    /\ image.stage = "encoding"
    /\ image.scanline < image.height
    /\ image.scanline < MaxScanlines
    /\ LET row_stride == compress_row_stride(image.width)
           access == [by |-> "jpeg_write_scanlines",
                      offset |-> Uint32Mul(row_stride, image.scanline),
                      length |-> row_stride]
       IN  \E outcome \in AccessOutcomes(access, image.raw_size) :
               image' = [image EXCEPT
                           !.access = access,
                           !.scanline = @ + 1,
                           !.stage = IF outcome = "killed" THEN "killed" ELSE @]
    /\ UNCHANGED session

\* lines 589 and 594-598: the loop is over, the file is closed
compress_finish ==
    /\ image.stage = "encoding"
    /\ image.scanline = image.height
    /\ image' = [image EXCEPT !.stage = "encoded"]
    /\ UNCHANGED session

InitImage ==
    options \in ImageOptionSets /\ ProcessStart /\ image \in ImageHeaders

NextImage ==
    \/ decompress_allocate
    \/ decompress_read_scanline
    \/ decompress_finish
    \/ compress_start
    \/ compress_write_scanline
    \/ compress_finish

SpecImage == InitImage /\ [][NextImage]_vars

\* ==== properties ==========================================================
CaptureReturned == capture_result # "none"

AllCallsSucceeded == \A k \in 1 .. Len(trace) : trace[k][3]

\* the only calls that failed are write_jpeg calls
OnlyCodecFailures ==
    \A k \in 1 .. Len(trace) : trace[k][3] \/ trace[k][1] = "write_jpeg"

LogCount(what) ==
    Cardinality({ k \in 1 .. Len(frame_log) : frame_log[k].what = what })

\* C1: with loop-mode off, count = c >= 1, skip = s and no failing call,
\* capture() returns success after exactly s + c dequeue/requeue cycles, s
\* skipped frames and c persisted frames, whatever the pause is.
C1_ExactCycles ==
    (/\ CaptureReturned
     /\ ~options.loop
     /\ frames_count(options) >= 1
     /\ AllCallsSucceeded)
    => LET c == frames_count(options)
           s == frames_to_skip(options)
       IN  /\ capture_result = "true"
           /\ frames_skipped = s /\ LogCount("skipped") = s
           /\ frames_taken = c /\ LogCount("persisted") = c
           /\ Succeeded("write_jpeg") = c
           /\ Succeeded("VIDIOC_DQBUF") = s + c
           /\ Succeeded("VIDIOC_QBUF") = kBuffersCount + s + c

\* a paced session with count 2 and skip 1 has returned success
C1_Witness ==
    /\ capture_result = "true"
    /\ ~options.loop
    /\ AllCallsSucceeded
    /\ options.has_count /\ options.count = 2
    /\ options.has_skip /\ options.skip = 1
    /\ LogCount("skipped") = 1
    /\ LogCount("persisted") = 2
    /\ Succeeded("VIDIOC_DQBUF") = 3
    /\ Succeeded("VIDIOC_QBUF") = kBuffersCount + 3

\* C2: a frame for which write_jpeg returns failure ends the session when
\* ignore-jpeg-errors is off (it is the last frame dequeued, status is false
\* and capture() does not return success); when the flag is on the frame
\* leaves frames_taken alone, the loop goes on, and capture() returns
\* success with the requested count persisted if nothing else fails.
C2_CodecFailurePolicy ==
    /\ \A k \in 1 .. Len(frame_log) :
         /\ (frame_log[k].what = "abort")
            => /\ ~options.ignore_jpeg_errors
               /\ k = Len(frame_log)
               /\ Succeeded("VIDIOC_DQBUF") = k
               /\ status = FALSE
               /\ pc \in {"streamoff", "main_return", "exited"}
               /\ capture_result # "true"
         /\ (frame_log[k].what = "failed") => options.ignore_jpeg_errors
    /\ Issued("write_jpeg") - Succeeded("write_jpeg")
         = LogCount("abort") + LogCount("failed")
    /\ frames_taken = Succeeded("write_jpeg")
    /\ (/\ options.ignore_jpeg_errors
        /\ ~options.loop
        /\ CaptureReturned
        /\ OnlyCodecFailures)
       => /\ capture_result = "true"
          /\ frames_taken = frames_count(options)

\* with errors ignored a frame failed, and the session still returned
\* success with the requested two frames persisted
C2_Witness ==
    /\ options.ignore_jpeg_errors
    /\ ~options.loop
    /\ capture_result = "true"
    /\ LogCount("failed") >= 1
    /\ frames_taken = 2
    /\ frames_count(options) = 2

\* C3: when VIDIOC_STREAMON has succeeded, capture() has issued
\* VIDIOC_STREAMOFF exactly once by the time it returns.
C3_StreamOffOnce ==
    (CaptureReturned /\ Succeeded("VIDIOC_STREAMON") = 1)
    => Issued("VIDIOC_STREAMOFF") = 1

\* the VIDIOC_QBUF calls of the capture loop: those after the initial
\* kBuffersCount ones
LoopRequeues ==
    LET q == SelectSeq(trace, LAMBDA e : e[1] = "VIDIOC_QBUF")
    IN  IF Len(q) <= kBuffersCount THEN << >>
        ELSE SubSeq(q, kBuffersCount + 1, Len(q))

InLoopBetweenIterations ==
    pc \in {"loop", "streamoff"} /\ Succeeded("VIDIOC_STREAMON") = 1

\* C4 as claimed: once an iteration that dequeued a buffer is over (the
\* loop is at its condition again or has been left), a VIDIOC_QBUF for the
\* dequeued slot has been issued, whatever happened to the frame.
C4_RequeueUnconditional ==
    InLoopBetweenIterations
    => /\ Len(LoopRequeues) = Succeeded("VIDIOC_DQBUF")
       /\ \A k \in 1 .. Len(LoopRequeues) :
            LoopRequeues[k][2] = frame_log[k].index

\* C4, amended: a dequeued slot is requeued (same index) when its frame was
\* skipped, persisted, or failed in write_jpeg with errors ignored, and at
\* every readiness wait all slots are with the driver; a frame that failed
\* with errors not ignored is the last one and its slot is not requeued.
C4_RequeueUnlessAbort ==
    /\ InLoopBetweenIterations
       => /\ Len(frame_log) = Succeeded("VIDIOC_DQBUF")
          /\ Len(LoopRequeues)
               = Len(frame_log) - LogCount("abort")
          /\ LogCount("abort") <= 1
          /\ \A k \in 1 .. Len(LoopRequeues) :
               /\ LoopRequeues[k][2] = frame_log[k].index
               /\ frame_log[k].what \in {"skipped", "persisted", "failed"}
    /\ (pc = "loop") => \A i \in Slots : owner[i] \in {"queued", "filled"}
    /\ (pc = "streamoff" /\ LogCount("abort") = 1)
       => owner[frame_log[Len(frame_log)].index] = "user"

\* a skipped, a failed-and-ignored and a persisted frame have all been
\* requeued and the loop is at its next wait
C4_Witness ==
    /\ pc = "loop"
    /\ LogCount("skipped") = 1
    /\ LogCount("failed") = 1
    /\ LogCount("persisted") = 1
    /\ Len(LoopRequeues) = 3
    /\ \E k \in 1 .. 3 : LoopRequeues[k][2] = 1

\* the last call or frame before the loop was left is one of the fatal
\* errors of lines 163-212
LeftLoopOnFatalError ==
    /\ status = FALSE
    /\ trace # << >>
    /\ LET last == trace[Len(trace)]
       IN  /\ ~last[3]
           /\ \/ last[1] \in {"epoll_wait", "VIDIOC_DQBUF", "VIDIOC_QBUF"}
              \/ /\ last[1] = "write_jpeg"
                 /\ ~options.ignore_jpeg_errors
                 /\ frame_log[Len(frame_log)].what = "abort"

\* C5: in loop-mode the loop is left only on a fatal error (failed wait,
\* error/hangup event, failed dequeue or requeue, codec failure with errors
\* not ignored), never because frames_taken reached the count.
C5_LoopIgnoresCount ==
    (options.loop /\ pc = "streamoff") => LeftLoopOnFatalError

\* in loop-mode more frames than the count have been persisted and the
\* loop is still running
C5_Witness ==
    /\ options.loop
    /\ options.has_count
    /\ pc = "loop"
    /\ loop_condition(frames_taken, options)
    /\ frames_taken > frames_count(options)
    /\ frames_taken >= 2

\* C6: the step that handles a dequeued frame changes at most one of
\* frames_taken and frames_skipped, by one: frames_skipped iff the frame is
\* skipped (write_jpeg not called), frames_taken iff write_jpeg was called
\* and returned true; no other step changes either counter.
C6_CountersExclusive ==
    [][ LET dt == frames_taken' - frames_taken
            ds == frames_skipped' - frames_skipped
            called == trace' # trace /\ trace'[Len(trace')][1] = "write_jpeg"
        IN  IF pc = "frame" /\ pc' # "frame"
            THEN /\ dt \in {0, 1} /\ ds \in {0, 1} /\ dt + ds <= 1
                 /\ (ds = 1) <=> (skip_frame' /\ trace' = trace)
                 /\ (dt = 1) <=> (called /\ trace'[Len(trace')][3])
                 /\ (called /\ ~trace'[Len(trace')][3]) => (dt = 0 /\ ds = 0)
            ELSE dt = 0 /\ ds = 0 ]_vars

\* one frame was skipped, one failed with errors ignored, one was persisted
C6_Witness ==
    /\ Len(frame_log) = 3
    /\ frame_log[1].what = "skipped"
    /\ frame_log[2].what = "failed"
    /\ frame_log[3].what = "persisted"
    /\ frames_skipped = 1
    /\ frames_taken = 1

\* C7: when decompress_jpeg has returned failure the process is running,
\* write_jpeg reports failure and the decoder context of the call has been
\* destroyed.
C7_DecodeFailureContained ==
    (codec.decode = "false")
    => /\ pc # "exited"
       /\ trace[Len(trace)] = Call("write_jpeg", bufferinfo, FALSE)
       /\ codec.cinfo = "destroyed"

\* C8: in recompress mode a failure of the encode stage leaves the process
\* running, with write_jpeg having returned false for the frame.
C8_EncodeFailureContained ==
    (~options.save_jpeg_asis /\ codec.decode = "true"
       /\ codec.encode # "true")
    => /\ pc # "exited"
       /\ exit_code = -1
       /\ trace[Len(trace)] = Call("write_jpeg", bufferinfo, FALSE)

\* C9: with an invalid resolution string no device operation is issued.
C9_BadResolutionNoDeviceCall ==
    (~parse_resolution(options.resolution).ok)
    => /\ Issued("open") = 0
       /\ Issued("VIDIOC_QUERYCAP") = 0
       /\ Issued("VIDIOC_S_FMT") = 0

BadQuality ==
    options.has_quality /\ (options.quality < 0 \/ options.quality > 100)

\* main() never got as far as constructing the device
NeverTouchedDevice ==
    /\ pc \in {"main", "exited"}
    /\ trace = << >>
    /\ fd = -1
    /\ ~initialized
    /\ capture_result = "none"

\* C10 as claimed: with a quality outside 0..100 or without --result the
\* process exits with failure status, the device untouched.
C10_BadOptionsExitFailure ==
    (BadQuality \/ ~options.has_result)
    => /\ NeverTouchedDevice
       /\ (pc = "exited") => (exit_code = EXIT_FAILURE)

\* C10, amended: with a quality outside 0..100 or without --result the
\* process exits before initialize() and capture() and before any device
\* call; the exit status is failure unless --help was given, in which case
\* it is success.
C10_BadOptionsNoDevice ==
    (BadQuality \/ ~options.has_result)
    => /\ NeverTouchedDevice
       /\ (pc = "exited")
          => (exit_code = IF options.help THEN EXIT_SUCCESS
                          ELSE EXIT_FAILURE)

\* the process has exited with failure on --quality 101, --result given
C10_Witness ==
    /\ pc = "exited"
    /\ ~options.help
    /\ options.has_result
    /\ options.has_quality /\ options.quality = 101
    /\ exit_code = EXIT_FAILURE
    /\ trace = << >>

\* ---- buffer pool and device handle -----------------------------------------
InitializationOver ==
    pc \notin {"main", "open_device", "check_capabilities", "set_format",
               "init_buffers"}

PoolCallFailed ==
    \E k \in 1 .. Len(trace) :
        /\ trace[k][1] \in {"VIDIOC_REQBUFS", "VIDIOC_QUERYBUF", "mmap"}
        /\ ~trace[k][3]

Entries(entry) == Cardinality({k \in 1 .. Len(trace) : trace[k] = entry})

\* C11: when initialize() has returned success the pool has kBuffersCount
\* slots and every one of them holds a mapping of non-zero length, made by
\* one successful mmap for its index; when VIDIOC_REQBUFS, a VIDIOC_QUERYBUF
\* (a driver that granted fewer buffers fails the query of the first missing
\* index) or an mmap failed, initialize() has returned failure.
C11_PoolMappedOrFailure ==
    /\ initialized =>
          /\ Cardinality(DOMAIN buffers) = kBuffersCount
          /\ \A i \in Slots :
                /\ buffers[i].start = "mapped"
                /\ buffers[i].size > 0
                /\ Entries(Call("mmap", i, TRUE)) = 1
    /\ (InitializationOver /\ PoolCallFailed) => ~initialized

C11_Witness ==
    /\ initialized
    /\ pc = "capture"
    /\ \A i \in Slots : buffers[i].start = "mapped"

\* main() returned through its last line, so the device object was destroyed
\* (exit() called from inside libjpeg runs no destructor of main's locals).
DeviceDestroyed == pc = "exited" /\ Issued("exit") = 0

\* C12: at teardown every slot whose mapping succeeded is unmapped exactly
\* once and no other slot is unmapped, whatever step of initialization
\* failed and however the session ended; nothing is unmapped before.
C12_UnmapExactlyMapped ==
    /\ \A i \in Slots :
          /\ Entries(Call("mmap", i, TRUE)) <= 1
          /\ DeviceDestroyed =>
                Entries(Call("munmap", i, TRUE)) = Entries(Call("mmap", i, TRUE))
    /\ pc # "exited" => Issued("munmap") = 0

C12_Witness ==
    /\ DeviceDestroyed
    /\ ~initialized
    /\ buffers[0].start = "mapped" /\ Entries(Call("munmap", 0, TRUE)) = 1
    /\ buffers[1].start = "MAP_FAILED" /\ Entries(Call("munmap", 1, TRUE)) = 0

\* C13: the device handle is closed exactly once, at teardown, when open()
\* succeeded and never when it failed, whatever step of initialization
\* failed and however capture() ended.
C13_ClosedIffOpened ==
    /\ Issued("close") <= 1
    /\ pc # "exited" => Issued("close") = 0
    /\ DeviceDestroyed => Issued("close") = Succeeded("open")

C13_Witness ==
    /\ DeviceDestroyed
    /\ initialized /\ capture_result = "false"
    /\ Issued("close") = 1

QueuedBefore(k, i) ==
    Cardinality({j \in 1 .. (k - 1) : trace[j] = Call("VIDIOC_QBUF", i, TRUE)})

InitialEnqueueFailed ==
    \E j \in 1 .. Len(trace) :
        /\ trace[j][1] = "VIDIOC_QBUF" /\ ~trace[j][3]
        /\ \A m \in 1 .. (j - 1) : trace[m][1] # "VIDIOC_STREAMON"

\* C14: when VIDIOC_STREAMON is issued, exactly kBuffersCount buffers have
\* been enqueued before it, every index once; when one of these initial
\* enqueues failed, VIDIOC_STREAMON is never issued and capture() returns
\* failure.
C14_AllQueuedBeforeStreamOn ==
    /\ \A k \in 1 .. Len(trace) :
          trace[k][1] = "VIDIOC_STREAMON" =>
              /\ \A i \in Slots : QueuedBefore(k, i) = 1
              /\ Cardinality({j \in 1 .. (k - 1) :
                                 trace[j][1] = "VIDIOC_QBUF"}) = kBuffersCount
    /\ InitialEnqueueFailed =>
          /\ Issued("VIDIOC_STREAMON") = 0
          /\ capture_result = "false"

C14_Witness ==
    /\ pc = "epoll_create"
    /\ Succeeded("VIDIOC_STREAMON") = 1
    /\ \A i \in Slots : owner[i] \in {"queued", "filled"}

\* ---- buffer ownership and readiness waits ----------------------------------
DriverOwnsAll == \A i \in Slots : owner[i] \in {"queued", "filled"}

UserSlots == {i \in Slots : owner[i] = "user"}

Appended(name) ==
    /\ Len(trace') = Len(trace) + 1
    /\ trace'[Len(trace')][1] = name

\* C15: at every readiness wait and up to the dequeue all slots belong to the
\* driver; from a successful dequeue to the requeue that follows exactly one
\* slot, the dequeued one, belongs to the process; write_jpeg reads that slot
\* and no other, and the slot handed back is the same one.
C15_OwnershipStates ==
    /\ pc \in {"loop", "dqbuf"} => DriverOwnsAll
    /\ pc \in {"frame", "requeue"} => UserSlots = {bufferinfo}

C15_OwnershipSteps ==
    [][ /\ Appended("write_jpeg") =>
              /\ trace'[Len(trace')][2] = bufferinfo
              /\ owner[trace'[Len(trace')][2]] = "user"
        /\ (pc = "requeue" /\ pc' = "loop") =>
              /\ owner'[bufferinfo] = "queued"
              /\ \A i \in Slots \ {bufferinfo} : owner'[i] = owner[i]
      ]_vars

C15_OwnershipDiscipline == []C15_OwnershipStates /\ C15_OwnershipSteps

C15_Witness ==
    /\ pc = "requeue"
    /\ bufferinfo = 1
    /\ UserSlots = {1}
    /\ trace[Len(trace)] = Call("write_jpeg", 1, TRUE)

WaitFailedAt(k) == trace[k] = Call("epoll_wait", 0, FALSE)

\* C16: a failed wait, or an event reporting an error or a hang-up, leaves the
\* loop with status false and without a dequeue, and capture() then returns
\* failure; a wake-up with no event dequeues nothing, changes no counter,
\* does not sleep, and the wait is entered again.
C16_WaitStates ==
    \A k \in 1 .. Len(trace) :
        WaitFailedAt(k) =>
            /\ ~status
            /\ capture_result # "true"
            /\ \A j \in (k + 1) .. Len(trace) :
                  trace[j][1] \in {"VIDIOC_STREAMOFF", "close", "munmap"}

C16_WaitSteps ==
    [][ /\ Appended("epoll_wait") =>
              /\ pc' = "streamoff"
              /\ UNCHANGED << owner, done_list, bufferinfo, bytesused, frames_taken,
                              frames_skipped, frame_log, clock >>
        /\ nzero' > nzero =>
              /\ pc' = "loop"
              /\ loop_condition(frames_taken', options')
              /\ UNCHANGED << trace, owner, done_list, bufferinfo, bytesused,
                              frames_taken, frames_skipped, frame_log, clock,
                              status >>
      ]_vars

C16_WaitOutcomes == []C16_WaitStates /\ C16_WaitSteps

C16_Witness ==
    /\ pc = "loop"
    /\ nzero = 1
    /\ frames_taken = 1
    /\ loop_condition(frames_taken, options)
    /\ DriverOwnsAll

\* ---- files written by write_jpeg -------------------------------------------
\* C17: in verbatim mode a successful write produces a file of exactly as
\* many bytes as the frame delivered in the buffer has (bytesused, not the
\* size of the slot), copied from the start of the slot.
C17_VerbatimExactLength ==
    (pc = "requeue" /\ options.save_jpeg_asis /\ codec.stream = "good") =>
        codec.written = bytesused

\* C18: in verbatim mode, when the destination cannot be opened or the write
\* fails, write_jpeg returns failure for this frame, frames_taken is not
\* incremented, and no other counter and no slot changes.
C18_VerbatimFailureReported ==
    [][ (/\ pc = "frame"
         /\ options.save_jpeg_asis
         /\ codec'.stream \in {"open_failed", "write_failed"}) =>
            /\ Appended("write_jpeg")
            /\ ~trace'[Len(trace')][3]
            /\ UNCHANGED << frames_taken, frames_skipped, owner, buffers >>
      ]_vars

PersistedAt(k) == frame_log[k].what = "persisted"

\* C19: no two persisted frames of a session were written to the same file
\* name, so each persisted frame has its own file at the end of the session,
\* with frame-index templates and with time-format templates, however close
\* in time the frames arrive.
C19_OneFilePerPersistedFrame ==
    \A j, k \in 1 .. Len(frame_log) :
        (j < k /\ PersistedAt(j) /\ PersistedAt(k)) =>
            frame_log[j].name # frame_log[k].name

\* ---- parse_resolution ------------------------------------------------------
IsDigits(str) == str # << >> /\ \A i \in 1 .. Len(str) : str[i] \in Digits

WidthString(res) == SubSeq(res, 1, FindX(res, 1) - 1)

HeightString(res) == SubSeq(res, FindX(res, 1) + 1, Len(res))

WellFormed(res) ==
    /\ FindX(res, 1) # 0
    /\ IsDigits(WidthString(res))
    /\ IsDigits(HeightString(res))

\* the number a digit string denotes, in six 16-bit limbs (wide enough for
\* 28 digits), least significant first
ExactValue(str) == WideDecimal(str, << 0, 0, 0, 0, 0, 0 >>, FALSE).value

Widened(u) == << u.lo, u.hi, 0, 0, 0, 0 >>

\* C20: for a resolution string <W>x<H> with W and H non-empty digit strings,
\* parse_resolution succeeds and the width and height it returns are the
\* numbers W and H denote, neither truncated nor wrapped.
C20_ParseResolutionExact ==
    (format.parsed /\ WellFormed(options.resolution)) =>
        /\ format.ok
        /\ Widened(format.width) = ExactValue(WidthString(options.resolution))
        /\ Widened(format.height) = ExactValue(HeightString(options.resolution))

\* C21: for a resolution string without an "x", or whose width or height is
\* not a non-empty string of decimal digits (empty, signed, with a blank or
\* with trailing characters), parse_resolution reports failure and
\* initialize() returns failure.
C21_MalformedResolutionRejected ==
    ~WellFormed(options.resolution) =>
        /\ format.parsed => ~format.ok
        /\ ~initialized

\* ---- initialize() and the ends of capture() ---------------------------------
\* C22: initialize() succeeds only when the device declared both video
\* capture and streaming; when the query failed or one of the two is
\* missing, initialize() returns failure and neither VIDIOC_S_FMT nor
\* VIDIOC_REQBUFS is issued.
C22_CapabilitiesRequired ==
    /\ initialized =>
          /\ Succeeded("VIDIOC_QUERYCAP") = 1
          /\ cap.video_capture /\ cap.streaming
    /\ (Issued("VIDIOC_QUERYCAP") > 0
         /\ ~(Succeeded("VIDIOC_QUERYCAP") = 1
              /\ cap.video_capture /\ cap.streaming)) =>
          /\ ~initialized
          /\ pc \in {"main_return", "exited"}
          /\ Issued("VIDIOC_S_FMT") = 0
          /\ Issued("VIDIOC_REQBUFS") = 0

C22_Witness ==
    /\ pc = "exited"
    /\ Succeeded("VIDIOC_QUERYCAP") = 1
    /\ cap.video_capture /\ ~cap.streaming
    /\ exit_code = EXIT_FAILURE

StreamOffFailed ==
    Issued("VIDIOC_STREAMOFF") = 1 /\ Succeeded("VIDIOC_STREAMOFF") = 0

\* C23: when VIDIOC_STREAMOFF at the end of capture() fails, capture()
\* returns failure whatever the accumulated status was, also when every
\* requested frame had been persisted; when it succeeds capture() returns the
\* accumulated status.
C23_StreamOffDecidesResult ==
    Issued("VIDIOC_STREAMOFF") = 1 =>
        /\ pc \in {"main_return", "exited"}
        /\ StreamOffFailed => capture_result = "false"
        /\ ~StreamOffFailed =>
               capture_result = (IF status THEN "true" ELSE "false")

C23_Witness ==
    /\ StreamOffFailed
    /\ status
    /\ frames_taken = frames_count(options)
    /\ LogCount("persisted") = MaxCount
    /\ capture_result = "false"
    /\ exit_code = EXIT_FAILURE

InitializeStep(name) ==
    CASE name = "open" -> 1
      [] name = "VIDIOC_QUERYCAP" -> 2
      [] name = "VIDIOC_S_FMT" -> 3
      [] name \in {"VIDIOC_REQBUFS", "VIDIOC_QUERYBUF", "mmap"} -> 4
      [] OTHER -> 0

\* C25: initialize() runs open, capability check, format negotiation and
\* buffer-pool set-up in that order: its first call is the open, every call
\* it issues after another one belongs to the same step or to the next one
\* and comes after a call that succeeded (so nothing follows the first
\* failure), and initialize() succeeds only when all four steps succeeded.
C25_InitializeOrder ==
    /\ trace # << >> => trace[1][1] = "open"
    /\ \A k \in 2 .. Len(trace) :
           InitializeStep(trace[k][1]) > 0 =>
               /\ trace[k - 1][3]
               /\ InitializeStep(trace[k][1]) - InitializeStep(trace[k - 1][1])
                      \in {0, 1}
    /\ Issued("VIDIOC_S_FMT") > 0 => cap.video_capture /\ cap.streaming
    /\ Issued("VIDIOC_REQBUFS") > 0 => format.ok
    /\ initialized =>
           /\ Succeeded("open") = 1
           /\ Succeeded("VIDIOC_QUERYCAP") = 1
           /\ Succeeded("VIDIOC_S_FMT") = 1
           /\ Succeeded("VIDIOC_REQBUFS") = 1
           /\ Succeeded("mmap") = kBuffersCount
           /\ \A k \in 1 .. Len(trace) :
                  InitializeStep(trace[k][1]) > 0 => trace[k][3]

C25_Witness ==
    /\ pc = "exited"
    /\ Succeeded("open") = 1
    /\ Succeeded("VIDIOC_QUERYCAP") = 1
    /\ Issued("VIDIOC_S_FMT") = 1
    /\ Succeeded("VIDIOC_S_FMT") = 0
    /\ Issued("VIDIOC_REQBUFS") = 0
    /\ ~initialized

StreamOnFailed ==
    Issued("VIDIOC_STREAMON") = 1 /\ Succeeded("VIDIOC_STREAMON") = 0

\* C27: when VIDIOC_STREAMON fails capture() returns failure without
\* dequeuing a buffer, running the codec, writing a file or issuing
\* VIDIOC_STREAMOFF, and the kBuffersCount buffers queued before it stay
\* queued in the driver.
C27_StreamOnFailure ==
    StreamOnFailed =>
        /\ pc \in {"main_return", "exited"}
        /\ capture_result = "false"
        /\ Issued("VIDIOC_DQBUF") = 0
        /\ Issued("write_jpeg") = 0
        /\ frame_log = << >>
        /\ Issued("VIDIOC_STREAMOFF") = 0
        /\ Issued("epoll_create") = 0
        /\ Succeeded("VIDIOC_QBUF") = kBuffersCount
        /\ \A i \in Slots : owner[i] = "queued"
        /\ Len(incoming) = kBuffersCount

C27_Witness ==
    /\ StreamOnFailed
    /\ pc = "exited"
    /\ exit_code = EXIT_FAILURE
    /\ \A i \in Slots : owner[i] = "queued"

\* C28: the first s dequeued frames of a session, s the --skip value, are
\* exactly the skipped ones: frame k is skipped iff k <= s, so no frame goes
\* to the codec before s frames were skipped and none is skipped after, and
\* the codec is entered once for each frame that was not skipped.
C28_SkipOrdering ==
    LET s == IF options.has_skip THEN options.skip ELSE 0
    IN  /\ \A k \in 1 .. Len(frame_log) :
               (frame_log[k].what = "skipped") <=> (k <= s)
        /\ frames_skipped = LogCount("skipped")
        /\ frames_skipped <= s
        /\ Issued("write_jpeg") = Len(frame_log) - LogCount("skipped")

C28_Witness ==
    /\ options.has_skip /\ options.skip = MaxSkip
    /\ Len(frame_log) = MaxSkip + 2
    /\ frame_log[MaxSkip].what = "skipped"
    /\ frame_log[MaxSkip + 1].what = "persisted"
    /\ frame_log[MaxSkip + 2].what = "persisted"

ConfiguredPause == IF options.has_pause THEN options.pause ELSE 0

\* microseconds of a pause of p >= 0 seconds, exact, least significant limb
\* first
ExactMicroseconds(p) ==
    WideMulAdd(WideMulAdd(<< p, 0, 0, 0 >>, 1000, 0).limbs, 1000, 0).limbs

PersistedAndRequeued(k) ==
    /\ k > 1
    /\ trace[k][1] = "VIDIOC_QBUF" /\ trace[k][3]
    /\ trace[k - 1][1] = "write_jpeg" /\ trace[k - 1][3]

\* C29: with --pause p >= 0 (or absent, p = 0) an iteration of the capture
\* loop calls usleep iff p > 0 and its frame was persisted: every usleep
\* comes right after the VIDIOC_QBUF of an iteration whose write_jpeg
\* succeeded, every such requeue is followed by one when p > 0, there is none
\* when p = 0, and each sleep lasts the configured p seconds.
C29_PacingInterval ==
    ConfiguredPause >= 0 =>
        /\ \A k \in 1 .. Len(trace) :
               trace[k][1] = "usleep" =>
                   ConfiguredPause > 0 /\ PersistedAndRequeued(k - 1)
        /\ \A k \in 1 .. Len(trace) :
               (ConfiguredPause > 0 /\ PersistedAndRequeued(k)) =>
                   k < Len(trace) /\ trace[k + 1][1] = "usleep"
        /\ Len(slept) = Issued("usleep")
        /\ \A k \in 1 .. Len(slept) :
               << slept[k].lo, slept[k].hi, 0, 0 >>
                   = ExactMicroseconds(ConfiguredPause)

\* the option set of the run that differs in --quiet only
OtherQuiet(o) == [o EXCEPT !.quiet = ~o.quiet]

\* what write_jpeg did to the frame, the channel of the codec message apart
Unheard(w) == [w EXCEPT !.codec.message = "none"]

\* the frame that capture() is about to handle
DequeuedFrame ==
    [index |-> bufferinfo, length |-> buffers[bufferinfo].size,
     bytesused |-> bytesused]

C26_ReinitializeNoOp ==
    [][ (pc = "open_device" /\ fd # -1) =>
           /\ trace' = trace
           /\ fd' = fd
           /\ buffers' = buffers
           /\ ~initialized'
           /\ pc' = "main_return" ]_vars

\* initialize() succeeded, was called again and returned failure: the pool
\* is still mapped, no call failed and capture() was not entered
C26_Witness ==
    /\ pc = "main_return"
    /\ ~initialized
    /\ fd # -1
    /\ \A i \in Slots : buffers[i].start = "mapped"
    /\ Succeeded("mmap") = kBuffersCount
    /\ Issued("open") = 1
    /\ \A k \in 1 .. Len(trace) : trace[k][3]
    /\ capture_result = "none"

SomeCallFailed ==
    \/ \E k \in 1 .. Len(trace) : ~trace[k][3]
    \/ Issued("exit") > 0
    \/ pc \in {"main_return", "exited"} /\ ~initialized

\* a filled buffer is with the driver and no readiness event is pending
Lagging == pc = "loop" /\ ~ready /\ done_list # << >>

\* C30: with loop-mode off, --count c >= 0 and a driver that completes a
\* queued buffer whenever it has one, every session in which no call fails
\* comes to the return of capture() with success and frames_taken = c: the
\* loop is never left waiting forever, also not after several buffers were
\* completed before one wait.
C30_CaptureTerminates ==
    <>( \/ SomeCallFailed
        \/ /\ capture_result = "true"
           /\ frames_taken = frames_count(options) )

\* the second frame is waiting in the driver, its event was consumed together
\* with the one of the first frame, and the loop is about to wait
C30_Witness ==
    /\ Lagging
    /\ loop_condition(frames_taken, options)
    /\ frames_taken = 1
    /\ ~SomeCallFailed

\* C35: with a negative --pause the loop never sleeps.
C35_NegativePauseNoSleep ==
    ConfiguredPause < 0 => Issued("usleep") = 0 /\ slept = << >>

\* C32: in loop-mode capture() never returns true, and every loop-mode run
\* that passed the option checks of main() and ended has the exit status
\* EXIT_FAILURE.
C32_LoopNeverSucceeds ==
    options.loop =>
        /\ capture_result # "true"
        /\ (pc = "streamoff" \/ Issued("VIDIOC_STREAMOFF") > 0) => ~status
        /\ (pc = "exited" /\ main_validate(options) = "run") =>
               exit_code = EXIT_FAILURE

\* a loop-mode session that persisted frames, left the loop on a failed
\* wait, stopped the stream and ended
C32_Witness ==
    /\ options.loop
    /\ pc = "exited"
    /\ frames_taken >= 2
    /\ Succeeded("VIDIOC_STREAMOFF") = 1
    /\ capture_result = "false"
    /\ exit_code = EXIT_FAILURE

PersistedBefore(k) ==
    Cardinality({ j \in 1 .. (k - 1) : PersistedAt(j) })

\* C33: with a frame-index template the k-th persisted frame of a session
\* is named with index k - 1, skipped and failed frames taking no index; so
\* when a session without --loop returns success the indices of its files
\* are exactly 0 .. c - 1.
C33_FrameIndexNames ==
    ~options.strftime =>
        /\ \A k \in 1 .. Len(frame_log) :
               PersistedAt(k) =>
                   frame_log[k].name = << "snprintf", PersistedBefore(k) >>
        /\ (~options.loop /\ capture_result = "true") =>
               { frame_log[k].name[2] :
                   k \in { j \in 1 .. Len(frame_log) : PersistedAt(j) } }
                   = 0 .. (frames_count(options) - 1)

\* a frame that failed with errors ignored lies between the files 0 and 1
C33_Witness ==
    /\ ~options.strftime /\ ~options.loop
    /\ capture_result = "true"
    /\ Len(frame_log) = 3
    /\ frame_log[1].name = << "snprintf", 0 >> /\ PersistedAt(1)
    /\ frame_log[2].what = "failed"
    /\ frame_log[3].name = << "snprintf", 1 >> /\ PersistedAt(3)

\* ---- the raw image ----------------------------------------------------------
\* width * height * components as a number, in four 16-bit limbs
ExactProduct(width, height, components) ==
    WideMul(WideMul(<< width, 0, 0, 0 >>, height), components)

Allocated == image.stage \notin {"none", "frame", "bad_alloc"}

\* C34: the size decompress_jpeg allocates is the product
\* width * height * components itself, not that product modulo 2^32, for
\* every width and height up to 65535 and up to 4 components; so every
\* scanline the decoder writes (row_stride bytes at scanline * row_stride)
\* lies inside raw_data.
C34_RawSizeExact ==
    Allocated =>
        /\ ZeroExtend(image.raw_size)
               = ExactProduct(image.width, image.height, image.components)
        /\ image.access.by = "jpeg_read_scanlines" =>
               InsideBuffer(image.access, image.raw_size)

\* C31: every scanline compress_jpeg reads (width * 3 bytes at
\* scanline * width * 3) lies inside the raw_data that decompress_jpeg
\* allocated, whether the decoder reported 1, 3 or 4 components.
C31_EncodeReadsInside ==
    image.access.by = "jpeg_write_scanlines" =>
        InsideBuffer(image.access, image.raw_size)
====
